---- MODULE Spec2Model ----
(***************************************************************************)
(* A model of the query orchestration of goutam-kul/SN_assignment:         *)
(* DataAnalysisAgent (src/src/agent_orchestrator/agent.py), the store of   *)
(* DataAnalysisEngine (src/src/llm_handler/data_analysis.py), the file     *)
(* dispatch of FileProcessor (src/src/file_processing/process_file.py),    *)
(* the type dispatch of VisualizationEngine                                *)
(* (src/src/visualization/visualization.py) and the two handlers of the    *)
(* Streamlit page (src/frontend/app.py).                                   *)
(*                                                                         *)
(* Representation.  A Python str is a sequence of strings whose            *)
(* concatenation is the text.  Every text the code searches, slices or     *)
(* joins (queries, file names, sheet names, dataset keys) is held one      *)
(* character per element; fixed texts that are only compared or embedded   *)
(* (chart types, messages) are held as one element.  Python's None is the  *)
(* one-element sequence <<"None">>, which is also what an f-string makes   *)
(* of it.  A Python dict is a function on its keys where order is          *)
(* irrelevant, and a sequence of [k, v] records where the code reads the   *)
(* insertion order.                                                        *)
(***************************************************************************)
EXTENDS Integers, Sequences, FiniteSets, TLC

VARIABLES
    files,                 \* agent.files             (agent.py:17)
    context,               \* engine.context          (data_analysis.py:13)
    data_frames,           \* engine.data_frames      (data_analysis.py:14)
    conversation_history,  \* agent.conversation_history (agent.py:16)
    conversation,          \* st.session_state.conversation (app.py:14)
    last,                  \* what the last handler run did and showed
    tquery,                \* text specification: the query
    tkeys,                 \* text specification: the keys of agent.files
    tout                   \* text specification: the result of the last call

vars == <<files, context, data_frames, conversation_history, conversation,
          last, tquery, tkeys, tout>>

sessionVars == <<files, context, data_frames, conversation_history,
                 conversation, last>>

textVars == <<tquery, tkeys, tout>>

-----------------------------------------------------------------------------
(* Python str operations, with Python's 0-based indices.                   *)

None == <<"None">>

UpperToLower ==
    [A |-> "a", B |-> "b", C |-> "c", D |-> "d", E |-> "e", F |-> "f",
     G |-> "g", H |-> "h", I |-> "i", J |-> "j", K |-> "k", L |-> "l",
     M |-> "m", N |-> "n", O |-> "o", P |-> "p", Q |-> "q", R |-> "r",
     S |-> "s", T |-> "t", U |-> "u", V |-> "v", W |-> "w", X |-> "x",
     Y |-> "y", Z |-> "z"]

UpperChars == DOMAIN UpperToLower

LowerChar(c) == IF c \in UpperChars THEN UpperToLower[c] ELSE c

\* str.lower()
Lower(s) == [i \in 1..Len(s) |-> LowerChar(s[i])]

SetMin(S) == CHOOSE x \in S : \A y \in S : x <= y

SetMax(S) == CHOOSE x \in S : \A y \in S : x >= y

\* s.find(sub, start): the lowest index >= start where sub occurs, else -1
Find(s, sub, start) ==
    LET hits == {i \in start..(Len(s) - Len(sub)) :
                    SubSeq(s, i + 1, i + Len(sub)) = sub}
    IN  IF hits = {} THEN -1 ELSE SetMin(hits)

\* sub in s
Contains(s, sub) == Find(s, sub, 0) # -1

\* s[a:b] for 0 <= a, 0 <= b
Slice(s, a, b) ==
    LET hi == IF b > Len(s) THEN Len(s) ELSE b
    IN  IF a >= hi THEN <<>> ELSE SubSeq(s, a + 1, hi)

\* s.strip(chars)
Strip(s, chars) ==
    LET keep == {i \in 1..Len(s) : s[i] \notin chars}
    IN  IF keep = {} THEN <<>> ELSE SubSeq(s, SetMin(keep), SetMax(keep))

\* the characters str.strip() removes, among those of the model
Whitespace == {" ", "\n", "\t"}

\* the argument of strip(' "\'') at agent.py:174
TitleStripChars == {" ", "\"", "'"}

-----------------------------------------------------------------------------
(* DataAnalysisAgent.ask: the intent test, agent.py:46-48.                 *)

viz_keywords ==
    { <<"p", "l", "o", "t">>,
      <<"c", "h", "a", "r", "t">>,
      <<"g", "r", "a", "p", "h">>,
      <<"v", "i", "s", "u", "a", "l", "i", "z", "e">>,
      <<"v", "i", "s", "u", "a", "l", "i", "z", "a", "t", "i", "o", "n">>,
      <<"h", "i", "s", "t", "o", "g", "r", "a", "m">>,
      <<"l", "i", "n", "e">>,
      <<"b", "a", "r">>,
      <<"p", "i", "e">>,
      <<"s", "c", "a", "t", "t", "e", "r">>,
      <<"b", "o", "x", "p", "l", "o", "t">> }

\* viz_request without the lower-casing
viz_request_case_sensitive(query) ==
    \E keyword \in viz_keywords : Contains(query, keyword)

viz_request(query) ==
    LET lowered == Lower(query)
    IN  \E keyword \in viz_keywords : Contains(lowered, keyword)

-----------------------------------------------------------------------------
(* DataAnalysisAgent._parse_visualization_request, agent.py:102-177.       *)

s_histogram == <<"h", "i", "s", "t", "o", "g", "r", "a", "m">>

s_x_axis == <<"x", "-", "a", "x", "i", "s">>

s_title == <<"t", "i", "t", "l", "e">>

s_period == <<".">>

\* the chart types as the code writes them, held as one element each
t_bar == <<"bar">>

t_line == <<"line">>

t_scatter == <<"scatter">>

t_histogram == <<"histogram">>

t_boxplot == <<"boxplot">>

t_heatmap == <<"heatmap">>

t_pie == <<"pie">>

\* agent.py:162, the offset added to find('x-axis')
XAxisOffset == 7

\* agent.py:170, the offset added to find('title')
TitleOffset == 5

\* list(self.files.keys())[0] if self.files else None
FirstKeyOrNone(keys) == IF keys # <<>> THEN keys[1] ELSE None

\* FallbackXColumn with the length of 'x-axis' as the offset
FallbackXColumn_offset6(query) ==
    IF Contains(Lower(query), s_x_axis)
    THEN LET x_start == Find(Lower(query), s_x_axis, 0) + Len(s_x_axis)
             found   == Find(query, s_period, x_start)
             x_end   == IF found = -1 THEN Len(query) ELSE found
         IN  Strip(Slice(query, x_start, x_end), Whitespace)
    ELSE None

\* agent.py:161-167
FallbackXColumn(query) ==
    IF Contains(Lower(query), s_x_axis)
    THEN LET x_start == Find(Lower(query), s_x_axis, 0) + XAxisOffset
             found   == Find(query, s_period, x_start)
             x_end   == IF found = -1 THEN Len(query) ELSE found
         IN  Strip(Slice(query, x_start, x_end), Whitespace)
    ELSE None

\* agent.py:169-175
FallbackTitle(query) ==
    IF Contains(Lower(query), s_title)
    THEN LET title_start == Find(Lower(query), s_title, 0) + TitleOffset
             found       == Find(query, s_period, title_start)
             title_end   == IF found = -1 THEN Len(query) ELSE found
         IN  Strip(Slice(query, title_start, title_end), TitleStripChars)
    ELSE None

\* FallbackType without the lower-casing
FallbackType_case_sensitive(query) ==
    IF Contains(query, s_histogram) THEN t_histogram ELSE t_bar

\* agent.py:152
FallbackType(query) ==
    IF Contains(Lower(query), s_histogram) THEN t_histogram ELSE t_bar

\* the except branch, agent.py:148-177: default_params
default_params(query, keys) ==
    [type            |-> FallbackType(query),
     x_column        |-> FallbackXColumn(query),
     y_column        |-> None,
     category_column |-> None,
     title           |-> FallbackTitle(query),
     file_id         |-> FirstKeyOrNone(keys)]

\* What llm.invoke(prompt).content can be: a text of tokens.  A token is a code
\* fence ```, the word json that may follow it, white space, other text, or
\* the text of one JSON value.
NoValue == [kind |-> "none", fields |-> <<>>]

FenceTok == [t |-> "fence", v |-> NoValue]

JsonWordTok == [t |-> "json", v |-> NoValue]

WsTok == [t |-> "ws", v |-> NoValue]

JunkTok == [t |-> "junk", v |-> NoValue]

ValueTok(v) == [t |-> "value", v |-> v]

\* a Python dict value, and a value that is no dict (a JSON array)
PyDict(d) == [kind |-> "object", fields |-> d]

PyList == [kind |-> "array", fields |-> <<>>]

StartsWith(s, prefix) ==
    Len(s) >= Len(prefix) /\ SubSeq(s, 1, Len(prefix)) = prefix

EndsWith(s, suffix) ==
    Len(s) >= Len(suffix) /\ SubSeq(s, Len(s) - Len(suffix) + 1, Len(s)) = suffix

\* agent.py:137-144
FenceStrip(response_text) ==
    LET t0 == Strip(response_text, {WsTok})
        t1 == IF StartsWith(t0, <<FenceTok, JsonWordTok>>)
              THEN Slice(t0, 2, Len(t0)) ELSE t0
        t2 == IF StartsWith(t1, <<FenceTok>>) THEN Slice(t1, 1, Len(t1)) ELSE t1
        t3 == IF EndsWith(t2, <<FenceTok>>) THEN Slice(t2, 0, Len(t2) - 1) ELSE t2
    IN  Strip(t3, {WsTok})

\* json.loads(text) returns: text is one JSON value within white space
JsonLoadsOk(text) ==
    LET body == Strip(text, {WsTok})
    IN  Len(body) = 1 /\ body[1].t = "value"

JsonLoads(text) == Strip(text, {WsTok})[1].v

\* The try block, agent.py:130-147.  llm = [raises, content]: whether
\* llm.invoke raised, and the content it returned otherwise.
TryBlock(llm) ==
    IF llm.raises
    THEN [exc |-> "LLMError", value |-> NoValue]
    ELSE LET response_text == FenceStrip(llm.content)
         IN  IF JsonLoadsOk(response_text)
             THEN [exc |-> "none", value |-> JsonLoads(response_text)]
             ELSE [exc |-> "JSONDecodeError", value |-> NoValue]

\* parse_visualization_request with a second llm.invoke before the fallback
parse_visualization_request_retrying(query, keys, llm) ==
    LET t == TryBlock(llm)
    IN  IF t.exc = "none"
        THEN [raised |-> FALSE, value |-> t.value, calls |-> 1]
        ELSE [raised |-> FALSE, value |-> PyDict(default_params(query, keys)),
              calls |-> 2]

\* agent.py:130-177: `except Exception` takes every exception of the try block
\* to the fallback, which raises nothing and does not call the model again.
\* Returns [raised, value, calls]: calls counts the llm.invoke calls made.
parse_visualization_request(query, keys, llm) ==
    LET t == TryBlock(llm)
    IN  IF t.exc = "none"
        THEN [raised |-> FALSE, value |-> t.value, calls |-> 1]
        ELSE [raised |-> FALSE, value |-> PyDict(default_params(query, keys)),
              calls |-> 1]

LlmRaises == [raises |-> TRUE, content |-> <<>>]

LlmReturns(text) == [raises |-> FALSE, content |-> text]

-----------------------------------------------------------------------------
(* Python dicts that keep their insertion order: sequences of [k, v].      *)

DictKeys(d) == [i \in 1..Len(d) |-> d[i].k]

DictHas(d, key) == \E i \in 1..Len(d) : d[i].k = key

DictGet(d, key) == d[CHOOSE i \in 1..Len(d) : d[i].k = key].v

\* d[key] = value: a key already there keeps its place
DictSet(d, key, value) ==
    IF DictHas(d, key)
    THEN [i \in 1..Len(d) |-> IF d[i].k = key THEN [k |-> key, v |-> value] ELSE d[i]]
    ELSE Append(d, [k |-> key, v |-> value])

\* d.get(key, default) of a dict held as a function on its keys
Get(d, key, default) == IF key \in DOMAIN d THEN d[key] ELSE default

\* bool(x) of a str or None
Truthy(x) == x # None /\ x # <<>>

-----------------------------------------------------------------------------
(* FileProcessor, process_file.py.  A DataFrame is [id, rows, dtypes]: a   *)
(* name for its payload, its row count and its columns with their types.   *)
(* A column is [col, dtype, str]: what str() of its label gives, its dtype, *)
(* and whether the label is a Python str (pandas labels a column of a JSON *)
(* array of arrays, or under a numeric header cell, with a number).        *)

s_csv == <<".", "c", "s", "v">>

s_xlsx == <<".", "x", "l", "s", "x">>

s_xls == <<".", "x", "l", "s">>

s_txt == <<".", "t", "x", "t">>

s_doc == <<".", "d", "o", "c">>

s_docx == <<".", "d", "o", "c", "x">>

s_pdf == <<".", "p", "d", "f">>

s_json == <<".", "j", "s", "o", "n">>

\* process_file.py:13
supported_extensions == {s_csv, s_xlsx, s_xls, s_txt, s_doc, s_docx, s_pdf, s_json}

\* os.path.splitext(path)[1] of a path without directories: from the last
\* period on, unless no character other than a period comes before it
Splitext(path) ==
    LET dots == {i \in 1..Len(path) : path[i] = "."}
    IN  IF dots = {} \/ \A j \in 1..(SetMax(dots) - 1) : path[j] = "."
        THEN <<>>
        ELSE SubSeq(path, SetMax(dots), Len(path))

ColumnsOfType(df, types) ==
    SelectSeq(df.dtypes, LAMBDA c : c.dtype \in types)

\* process_file.py:121-138, the lists that depend on the columns alone
get_summary(df) ==
    [numeric_columns     |-> ColumnsOfType(df, {"int64", "float64"}),
     categorical_columns |-> ColumnsOfType(df, {"object", "bool"}),
     date_columns        |-> ColumnsOfType(df, {"datetime64"})]

\* process_file.py:41-50, 63-72, 88-97, 107-116
Processed(df) ==
    [data     |-> df,
     metadata |-> [rows    |-> df.rows,
                   columns |-> Len(df.dtypes),
                   dtypes  |-> df.dtypes,
                   summary |-> get_summary(df)]]

NoError == [exc |-> "none", msg |-> <<>>]

Raised(exc, msg) == [exc |-> exc, msg |-> msg]

NoProcessed == [none |-> TRUE]

\* process_file.py:55-80.  A workbook is the sequence of its sheets, [name, df].
process_excel(workbook) ==
    [sheets      |-> [i \in 1..Len(workbook) |->
                        [k |-> workbook[i].name, v |-> Processed(workbook[i].df)]],
     sheet_names |-> [i \in 1..Len(workbook) |-> workbook[i].name]]

\* process_file.py:15-34.  content = [readable, table, workbook]: whether the
\* pandas reader of the extension reads the bytes, and what it reads.
\* Returns [error, data].
FileProcessor_process_file(file_path, content) ==
    LET extension == Splitext(file_path)
    IN  IF extension \notin supported_extensions
        THEN [error |-> Raised("ValueError", <<"Unsupported file extension: ">> \o extension),
              data  |-> NoProcessed]
        ELSE IF extension \in {s_doc, s_docx, s_pdf}
        THEN [error |-> Raised("AttributeError", <<"no attribute _process_doc or _process_pdf">>),
              data  |-> NoProcessed]
        ELSE IF ~content.readable
        THEN [error |-> Raised("ParserError", <<"pandas could not read the file">>),
              data  |-> NoProcessed]
        ELSE IF extension \in {s_xlsx, s_xls}
        THEN [error |-> NoError, data |-> process_excel(content.workbook)]
        ELSE [error |-> NoError, data |-> Processed(content.table)]

-----------------------------------------------------------------------------
(* DataAnalysisEngine.add_data, data_analysis.py:16-27.                    *)

s_underscore == <<"_">>

\* SheetKey without the file_id
SheetKey_sheet_only(file_id, sheet_name) == sheet_name

\* f"{file_id}_{sheet_name}", data_analysis.py:26
SheetKey(file_id, sheet_name) == file_id \o s_underscore \o sheet_name

RECURSIVE AddSheets(_, _, _, _)
\* data_analysis.py:25-26, the first n sheets
AddSheets(frames, file_id, sheets, n) ==
    IF n = 0 THEN frames
    ELSE DictSet(AddSheets(frames, file_id, sheets, n - 1),
                 SheetKey(file_id, sheets[n].k), sheets[n].v.data)

add_data_context(ctx, processed_file_data, file_id) ==
    DictSet(ctx, file_id, processed_file_data)

add_data_frames(frames, processed_file_data, file_id) ==
    IF "data" \in DOMAIN processed_file_data
    THEN DictSet(frames, file_id, processed_file_data.data)
    ELSE IF "sheets" \in DOMAIN processed_file_data
    THEN AddSheets(frames, file_id, processed_file_data.sheets,
                   Len(processed_file_data.sheets))
    ELSE frames

-----------------------------------------------------------------------------
(* VisualizationEngine, visualization.py.                                  *)

NoFigure == [figure |-> "none"]

t_donut == <<"donut">>

\* viz_types with a branch for one more chart type
viz_types_extended ==
    {t_bar, t_line, t_scatter, t_histogram, t_boxplot, t_heatmap, t_pie, t_donut}

\* the chart types the if/elif chain has a branch for, visualization.py:71-116
viz_types == {t_bar, t_line, t_scatter, t_histogram, t_boxplot, t_heatmap, t_pie}

DfColumns(df) == {df.dtypes[i].col : i \in {j \in 1..Len(df.dtypes) : df.dtypes[j].str}}

\* visualization.py:50-138.  plot_ok: whether the seaborn and matplotlib calls
\* of the chosen branch return.  Two branches never do: histogram indexes
\* df[x_column] (a KeyError for a name that is no column, None included), and
\* pie calls sns.pieplot, which seaborn does not have.  Returns [error, data].
seaborn_viz(df, viz_type, x_column, y_column, category_column, title, plot_ok) ==
    IF viz_type \notin viz_types
    THEN [error |-> Raised("ValueError", <<"Unsupported visualization type: ">> \o viz_type),
          data  |-> NoFigure]
    ELSE IF viz_type = t_histogram /\ x_column \notin DfColumns(df)
    THEN [error |-> Raised("KeyError", x_column), data |-> NoFigure]
    ELSE IF viz_type = t_pie
    THEN [error |-> Raised("AttributeError", <<"module 'seaborn' has no attribute 'pieplot'">>),
          data  |-> NoFigure]
    ELSE IF ~plot_ok
    THEN [error |-> Raised("PlotError", <<"the plotting library raised">>),
          data  |-> NoFigure]
    ELSE [error |-> NoError,
          data  |-> [figure |-> "png", format |-> "base64_png", title |-> title,
                     type |-> viz_type, engine |-> "seaborn"]]

\* visualization.py:29-47
generate_visualization(df, viz_type, x_column, y_column, category_column, title, engine, plot_ok) ==
    IF engine = "seaborn"
    THEN seaborn_viz(df, viz_type, x_column, y_column, category_column, title, plot_ok)
    ELSE [error |-> Raised("ValueError", <<"Unsupported visualization engine: ", engine>>),
          data  |-> NoFigure]

-----------------------------------------------------------------------------
(* DataAnalysisEngine._prepare_context, data_analysis.py:59-91.  The text  *)
(* is kept as context_parts, the sequence of its lines, and joined at the  *)
(* end as the code joins it.                                               *)

RECURSIVE Join(_, _)
\* sep.join(strs) for strs a sequence of str
Join(strs, sep) ==
    IF strs = <<>> THEN <<>>
    ELSE IF Len(strs) = 1 THEN strs[1]
    ELSE strs[1] \o sep \o Join(Tail(strs), sep)

\* "-" * 40, data_analysis.py:78 and 89
DelimiterLine == <<"----------------------------------------">>

\* str() of a list of column labels: a str label in quotes, a number bare
ListRepr(columns) ==
    <<"[">>
    \o Join([i \in 1..Len(columns) |->
                IF columns[i].str THEN <<"'">> \o columns[i].col \o <<"'">>
                ELSE columns[i].col], <<", ">>)
    \o <<"]">>

\* str() of metadata['summary'], the lists get_summary holds
SummaryRepr(summary) ==
    <<"{'numeric_columns': ">> \o ListRepr(summary.numeric_columns)
    \o <<", 'categorical_columns': ">> \o ListRepr(summary.categorical_columns)
    \o <<", 'date_columns': ">> \o ListRepr(summary.date_columns)
    \o <<"}">>

\* data_analysis.py:71-78 and 82-89: the six lines of one block under its
\* first line.  ', '.join(columns) raises TypeError for a label that is not
\* a str.  Returns [error, parts].
BlockLines(first_line, metadata) ==
    LET columns == metadata.dtypes
        n       == Len(columns)
    IN  IF \E i \in 1..n : ~columns[i].str
        THEN [error |-> Raised("TypeError",
                               <<"sequence item: expected str instance, int found">>),
              parts |-> <<>>]
        ELSE [error |-> NoError,
              parts |->
                <<first_line,
                  <<"Shape: ", ToString(metadata.rows), "x", ToString(metadata.columns)>>,
                  <<"Columns: ">> \o Join([i \in 1..n |-> columns[i].col], <<", ">>),
                  <<"Data types: ">>
                     \o Join([i \in 1..n |-> columns[i].col \o <<": ", columns[i].dtype>>],
                             <<", ">>),
                  <<"Summary: ">> \o SummaryRepr(metadata.summary),
                  DelimiterLine>>]

\* the parts of one step of a loop after the parts before it; an exception
\* ends the loop where it is raised
ThenParts(before, this) ==
    IF before.error # NoError THEN before
    ELSE IF this.error # NoError THEN this
    ELSE [error |-> NoError, parts |-> before.parts \o this.parts]

NoParts == [error |-> NoError, parts |-> <<>>]

RECURSIVE SheetBlocks(_, _)
\* data_analysis.py:81-89, the first n sheets of the workbook
SheetBlocks(sheets, n) ==
    IF n = 0 THEN NoParts
    ELSE ThenParts(SheetBlocks(sheets, n - 1),
                   BlockLines(<<"Sheet: ">> \o sheets[n].k, sheets[n].v.metadata))

\* data_analysis.py:67-89, the blocks of one entry of engine.context
EntryBlocks(file_id, data) ==
    IF "data" \in DOMAIN data
    THEN BlockLines(<<"File: ">> \o file_id, data.metadata)
    ELSE IF "sheets" \in DOMAIN data
    THEN SheetBlocks(data.sheets, Len(data.sheets))
    ELSE NoParts

RECURSIVE ContextParts(_, _)
\* data_analysis.py:63-89, the loop over file_ids
ContextParts(ctx, file_ids) ==
    IF file_ids = <<>> THEN NoParts
    ELSE ThenParts(IF ~DictHas(ctx, Head(file_ids)) THEN NoParts
                   ELSE EntryBlocks(Head(file_ids), DictGet(ctx, Head(file_ids))),
                   ContextParts(ctx, Tail(file_ids)))

\* "\n".join(context_parts), data_analysis.py:91
JoinedParts(made) ==
    [error |-> made.error,
     parts |-> made.parts,
     text  |-> IF made.error = NoError THEN Join(made.parts, <<"\n">>) ELSE <<>>]

\* Returns [error, parts, text]: the exception, or context_parts and the
\* text joined from them
prepare_context(ctx, file_ids) == JoinedParts(ContextParts(ctx, file_ids))

-----------------------------------------------------------------------------
(* DataAnalysisEngine.analyze_data, data_analysis.py:29-57: the context is *)
(* prepared, then one llm.invoke; no exception of either is caught.        *)
(* Returns [error, text, calls].                                           *)

\* data_analysis.py:39-57, with the exception of llm.invoke turned into an
\* answer
invoke_llm_catching(context_text, llm) ==
    IF context_text.error # NoError
    THEN [error |-> context_text.error, text |-> <<>>, calls |-> 0]
    ELSE IF llm.raises
    THEN [error |-> NoError, text |-> <<"llm.invoke raised">>, calls |-> 1]
    ELSE [error |-> NoError, text |-> llm.content, calls |-> 1]

\* data_analysis.py:39-57, after _prepare_context has returned or raised
invoke_llm(context_text, llm) ==
    IF context_text.error # NoError
    THEN [error |-> context_text.error, text |-> <<>>, calls |-> 0]
    ELSE IF llm.raises
    THEN [error |-> Raised("LLMError", <<"llm.invoke raised">>), text |-> <<>>,
          calls |-> 1]
    ELSE [error |-> NoError, text |-> llm.content, calls |-> 1]

analyze_data(ctx, file_ids, query, llm) ==
    invoke_llm(prepare_context(ctx, IF file_ids = <<>> THEN DictKeys(ctx) ELSE file_ids),
               llm)

-----------------------------------------------------------------------------
(* DataAnalysisAgent.ask, agent.py:32-100.                                 *)

\* agent.py:35-38
UserTurn(query) == [role |-> "user", content |-> query]

\* AssistantTurn holding the type of the response in place of its message
AssistantTurn_of_type(message) == [role |-> "assistant", content |-> <<"text">>]

\* agent.py:95-98
AssistantTurn(message) == [role |-> "assistant", content |-> message]

NoResponse == [type |-> "none", message |-> <<>>]

NoParams == NoValue

\* what ask() did: the exception it raised or the response it returned, the
\* branch it took, the parameters it extracted, the number of llm.invoke
\* calls it made, and whether the assistant turn was appended
AskRaised(error, branch, params, calls) ==
    [error |-> error, response |-> NoResponse, branch |-> branch,
     params |-> params, calls |-> calls, answered |-> FALSE]

AskReturned(response, branch, params, calls) ==
    [error |-> NoError, response |-> response, branch |-> branch,
     params |-> params, calls |-> calls, answered |-> TRUE]

\* agent.py:43
NoFilesError == Raised("ValueError", <<"No files have been processed yet">>)

\* agent.py:78-81
NotFoundMessage(viz_file_id) ==
    <<"File ">> \o viz_file_id \o <<" not found or no data available for visualization">>

\* agent.py:75
VisualizationMessage(type) ==
    <<"Here is the ">> \o type \o <<" visualization you requested">>

\* not_found with an exception in place of the text response
not_found_raising(viz_file_id, viz_params, calls) ==
    AskRaised(Raised("ValueError", NotFoundMessage(viz_file_id)),
              "visualization", viz_params, calls)

\* agent.py:77-81, the else branch
not_found(viz_file_id, viz_params, calls) ==
    AskReturned([type    |-> "text",
                 data    |-> NoFigure,
                 message |-> NotFoundMessage(viz_file_id)],
                "visualization", viz_params, calls)

\* agent.py:50-81, after _parse_visualization_request has returned
\* parsed = [raised, value, calls]
ask_visualization(frames, file_id, parsed, plot_ok) ==
    LET viz_params == parsed.value
        calls      == parsed.calls
    IN
    IF viz_params.kind # "object"
    THEN AskRaised(Raised("AttributeError", <<"object has no attribute 'get'">>),
                   "visualization", viz_params, calls)
    ELSE
    LET p           == viz_params.fields
        viz_file_id == Get(p, "file_id", file_id)
    IN  IF Truthy(viz_file_id) /\ DictHas(frames, viz_file_id)
        THEN LET viz_result ==
                    generate_visualization(DictGet(frames, viz_file_id),
                        Get(p, "type", t_bar), Get(p, "x_column", None),
                        Get(p, "y_column", None), Get(p, "category_column", None),
                        Get(p, "title", None), "seaborn", plot_ok)
             IN  IF viz_result.error # NoError
                 THEN AskRaised(viz_result.error, "visualization", viz_params, calls)
                 ELSE IF "type" \notin DOMAIN p
                 THEN AskRaised(Raised("KeyError", <<"type">>), "visualization",
                                viz_params, calls)
                 ELSE AskReturned([type    |-> "visualization",
                                   data    |-> viz_result.data,
                                   message |-> VisualizationMessage(p.type)],
                                  "visualization", viz_params, calls)
        ELSE not_found(viz_file_id, viz_params, calls)

\* agent.py:89-92
text_response(response) ==
    IF response.error # NoError
    THEN AskRaised(response.error, "analysis", NoParams, response.calls)
    ELSE AskReturned([type |-> "text", data |-> NoFigure, message |-> response.text],
                     "analysis", NoParams, response.calls)

\* agent.py:82-92
ask_analysis(ctx, file_id, query, llm) ==
    text_response(analyze_data(ctx, <<file_id>>, query, llm))

\* no_file_id without the test
no_file_id_unguarded(file_id) == FALSE

\* agent.py:42, `if not file_id`
no_file_id(file_id) == ~Truthy(file_id)

\* agent.py:40-100, after the user turn is appended.  fs, ctx and frames are
\* agent.files, engine.context and engine.data_frames; viz_llm and text_llm
\* are what llm.invoke does in _parse_visualization_request and in
\* analyze_data.
ask(fs, ctx, frames, query, viz_llm, text_llm, plot_ok) ==
    LET file_id == FirstKeyOrNone(DictKeys(fs))
    IN  IF no_file_id(file_id)
        THEN AskRaised(NoFilesError, "none", NoParams, 0)
        ELSE IF viz_request(query)
        THEN LET parsed == parse_visualization_request(query, DictKeys(fs), viz_llm)
             IN  IF parsed.raised
                 THEN AskRaised(Raised("LLMError", <<"llm.invoke raised">>),
                                "visualization", NoParams, parsed.calls)
                 ELSE ask_visualization(frames, file_id, parsed, plot_ok)
        ELSE ask_analysis(ctx, file_id, query, text_llm)

\* append_turns with the history started afresh by a failing run
append_turns_resetting(history, query, run) ==
    IF run.answered
    THEN history \o <<UserTurn(query), AssistantTurn(run.response.message)>>
    ELSE <<UserTurn(query)>>

\* agent.py:35-38 and 95-98: conversation_history after ask(); the second
\* append is reached only when nothing was raised before it
append_turns(history, query, run) ==
    IF run.answered
    THEN history \o <<UserTurn(query), AssistantTurn(run.response.message)>>
    ELSE history \o <<UserTurn(query)>>

\* os.path.basename(path) of a path without directories
Basename(path) == path

\* DataAnalysisAgent.process_file, agent.py:19-30.  Returns the exception or
\* the processed data, and the two stores of the engine afterwards.
agent_process_file(ctx, frames, file_path, file_id, content) ==
    LET id        == IF ~Truthy(file_id) THEN Basename(file_path) ELSE file_id
        processed == FileProcessor_process_file(file_path, content)
    IN  IF processed.error # NoError
        THEN [error |-> processed.error, data |-> NoProcessed,
              context |-> ctx, data_frames |-> frames]
        ELSE [error |-> NoError, data |-> processed.data,
              context     |-> add_data_context(ctx, processed.data, id),
              data_frames |-> add_data_frames(frames, processed.data, id)]

-----------------------------------------------------------------------------
(* Inputs.                                                                 *)

\* The queries of section 8 of the specification, and others that reach each
\* rule of the fallback and each keyword of the intent test.
q_plot_example ==
    <<"P", "l", "o", "t", " ", "w", "i", "t", "h", " ", "x", "-", "a", "x",
    "i", "s", " ", "C", "r", "e", "d", "i", "t", "S", "c", "o", "r", "e",
    ".", " ", "t", "i", "t", "l", "e", " ", "L", "o", "a", "n", " ", "O",
    "v", "e", "r", "v", "i", "e", "w", ".">>

q_histogram_example ==
    <<"C", "r", "e", "a", "t", "e", " ", "a", " ", "h", "i", "s", "t", "o",
    "g", "r", "a", "m", " ", "o", "f", " ", "A", "g", "e">>

q_bar_example ==
    <<"s", "h", "o", "w", " ", "m", "e", " ", "a", " ", "b", "a", "r", " ",
    "c", "h", "a", "r", "t", " ", "o", "f", " ", "s", "a", "l", "e", "s">>

q_analysis_example ==
    <<"w", "h", "a", "t", " ", "i", "s", " ", "t", "h", "e", " ", "a", "v",
    "e", "r", "a", "g", "e", " ", "l", "o", "a", "n", " ", "a", "m", "o",
    "u", "n", "t">>

q_bottom_line ==
    <<"t", "h", "e", " ", "b", "o", "t", "t", "o", "m", " ", "l", "i", "n",
    "e">>

q_upper_histogram ==
    <<"H", "I", "S", "T", "O", "G", "R", "A", "M", " ", "o", "f", " ", "A",
    "g", "e">>

q_two_titles ==
    <<"T", "i", "t", "l", "e", " ", "x", " ", "t", "i", "t", "l", "e", " ",
    "y">>

q_quoted_title ==
    <<"p", "l", "o", "t", " ", "x", "-", "a", "x", "i", "s", ":", " ", "A",
    "g", "e", ".", " ", "t", "i", "t", "l", "e", " ", "\"", "S", "a", "l",
    "e", "s", "\"">>

q_no_separator ==
    <<"p", "l", "o", "t", " ", "x", "-", "a", "x", "i", "s", "A", "g", "e">>

ExampleQueries ==
    {q_plot_example,
     q_histogram_example,
     q_bar_example,
     q_analysis_example,
     q_bottom_line,
     q_upper_histogram,
     q_two_titles,
     q_quoted_title,
     q_no_separator}

KeywordQueries ==
    {<<"P", "L", "O", "T">>,
     <<"C", "h", "a", "r", "t">>,
     <<"G", "R", "A", "P", "H">>,
     <<"V", "i", "s", "u", "a", "l", "i", "z", "e">>,
     <<"V", "i", "s", "u", "a", "l", "i", "z", "a", "t", "i", "o", "n">>,
     <<"L", "i", "n", "e">>,
     <<"B", "a", "r">>,
     <<"P", "i", "e">>,
     <<"S", "c", "a", "t", "t", "e", "r">>,
     <<"B", "o", "x", "P", "l", "o", "t">>,
     <<"m", "e", "a", "n">>,
     <<"c", "o", "u", "n", "t", " ", "r", "o", "w", "s">>}

\* The pieces the other queries are made of.
Fragments ==
    {<<"x", "-", "a", "x", "i", "s">>,
     <<"X", "-", "A", "x", "i", "s">>,
     <<"t", "i", "t", "l", "e">>,
     <<"T", "i", "t", "l", "e">>,
     <<" ">>,
     <<".">>,
     <<"'">>,
     <<"A", "g", "e">>,
     <<"h", "i", "s", "t", "o", "g", "r", "a", "m">>}

f_loans_csv ==
    <<"l", "o", "a", "n", "s", ".", "c", "s", "v">>

f_a_csv ==
    <<"a", ".", "c", "s", "v">>

f_b_xlsx ==
    <<"b", ".", "x", "l", "s", "x">>

f_bad_csv ==
    <<"b", "a", "d", ".", "c", "s", "v">>

n_Sheet1 ==
    <<"S", "h", "e", "e", "t", "1">>

n_Sheet2 ==
    <<"S", "h", "e", "e", "t", "2">>

k_missing_csv ==
    <<"m", "i", "s", "s", "i", "n", "g", ".", "c", "s", "v">>

f_c_json ==
    <<"c", ".", "j", "s", "o", "n">>

\* how many fragments a composed query has at most
MaxFrags == 2

RECURSIVE Composed(_)
Composed(n) ==
    IF n = 0 THEN {<<>>}
    ELSE Composed(n - 1) \cup {q \o f : q \in Composed(n - 1), f \in Fragments}

TextQueries == Composed(MaxFrags) \cup ExampleQueries \cup KeywordQueries

TextKeyLists == {<<f_loans_csv>>, <<f_b_xlsx, f_a_csv>>}

s_Age == <<"A", "g", "e">>

\* a JSON object with every field of the prompt, agent.py:110-116
VizObject(type, file_id) ==
    [type            |-> type,
     x_column        |-> s_Age,
     y_column        |-> None,
     category_column |-> None,
     title           |-> <<"T">>,
     file_id         |-> file_id]

\* a dict without key k
Omit(d, k) == [f \in DOMAIN d \ {k} |-> d[f]]

TextLlm ==
    {LlmRaises} \cup
    {LlmReturns(pre \o body \o post) :
        pre  \in {<<>>, <<FenceTok, JsonWordTok, WsTok>>, <<FenceTok, WsTok>>,
                  <<JunkTok, WsTok>>},
        body \in {<<>>, <<JunkTok>>, <<ValueTok(PyList)>>,
                  <<ValueTok(PyDict(VizObject(t_bar, f_loans_csv)))>>},
        post \in {<<>>, <<WsTok, FenceTok>>, <<WsTok, JunkTok>>}}

df_T1 == [id |-> "T1", rows |-> 3,
          dtypes |-> <<[col |-> s_Age, dtype |-> "int64", str |-> TRUE]>>]

df_T2 == [id |-> "T2", rows |-> 5,
          dtypes |-> <<[col |-> s_Age, dtype |-> "int64", str |-> TRUE],
                       [col |-> <<"N", "a", "m", "e">>, dtype |-> "object",
                        str |-> TRUE]>>]

\* a table whose columns pandas labelled 0 and 1
df_T3 == [id |-> "T3", rows |-> 2,
          dtypes |-> <<[col |-> <<"0">>, dtype |-> "int64", str |-> FALSE],
                       [col |-> <<"1">>, dtype |-> "int64", str |-> FALSE]>>]

Table(df) == [readable |-> TRUE, table |-> df, workbook |-> <<>>]

Workbook(sheets) == [readable |-> TRUE, table |-> df_T1, workbook |-> sheets]

Unreadable == [readable |-> FALSE, table |-> df_T1, workbook |-> <<>>]

\* What the user uploads: a table, a workbook of two sheets, a workbook of
\* the same name with one sheet whose header cells are numbers, a file pandas
\* rejects.
UploadedFiles ==
    {[name |-> f_a_csv, content |-> Table(df_T1)],
     [name |-> f_b_xlsx,
      content |-> Workbook(<<[name |-> n_Sheet1, df |-> df_T1],
                             [name |-> n_Sheet2, df |-> df_T2]>>)],
     [name |-> f_b_xlsx,
      content |-> Workbook(<<[name |-> n_Sheet1, df |-> df_T3]>>)],
     [name |-> f_bad_csv, content |-> Unreadable]}

q_mean == <<"m", "e", "a", "n">>

q_Bar == <<"B", "a", "r">>

\* an analysis query, and two visualization queries whose fallback chart types
\* are bar and histogram
SessionQueries == {q_mean, q_Bar, s_histogram}

\* JSON objects the model may answer with: a chart type that is supported,
\* unsupported, null or left out, and a file_id that is a key of
\* engine.data_frames, is none, is null or is left out
SessionObjects ==
    {VizObject(t_bar, f_a_csv),
     VizObject(t_bar, SheetKey(f_b_xlsx, n_Sheet1)),
     VizObject(t_bar, k_missing_csv),
     VizObject(t_bar, None),
     VizObject(t_pie, f_a_csv),
     VizObject(t_donut, f_a_csv),
     VizObject(t_donut, k_missing_csv),
     VizObject(None, f_a_csv),
     Omit(VizObject(t_bar, f_a_csv), "file_id"),
     Omit(VizObject(t_donut, f_a_csv), "file_id"),
     Omit(VizObject(t_bar, f_a_csv), "type")}

\* what llm.invoke does in _parse_visualization_request
SessionVizLlm ==
    {LlmRaises, LlmReturns(<<JunkTok>>), LlmReturns(<<ValueTok(PyList)>>),
     LlmReturns(<<ValueTok(PyDict(VizObject(t_bar, f_a_csv)))>>)}
    \cup {LlmReturns(<<FenceTok, JsonWordTok, WsTok, ValueTok(PyDict(o)), WsTok, FenceTok>>) :
            o \in SessionObjects}

\* what llm.invoke does in analyze_data
SessionTextLlm == {LlmRaises, LlmReturns(<<"The average loan amount is 42">>)}

\* how many turns the conversation history holds at most
MaxTurns == 3

\* What a caller of the agent passes to process_file: a table under its name
\* and under no file_id, a workbook of two sheets, a JSON array of arrays,
\* a file pandas rejects.
ProcessFileCalls ==
    {[path |-> f_a_csv, file_id |-> f_a_csv, content |-> Table(df_T1)],
     [path |-> f_a_csv, file_id |-> <<>>, content |-> Table(df_T2)],
     [path |-> f_b_xlsx, file_id |-> f_b_xlsx,
      content |-> Workbook(<<[name |-> n_Sheet1, df |-> df_T1],
                             [name |-> n_Sheet2, df |-> df_T2]>>)],
     [path |-> f_c_json, file_id |-> f_c_json, content |-> Table(df_T3)],
     [path |-> f_bad_csv, file_id |-> f_bad_csv, content |-> Unreadable]}

\* the keys asked of _prepare_context: of a table, of a workbook, of a sheet
\* of that workbook, of a table with numbers for labels, of nothing
RequestedKeys ==
    {f_a_csv, f_b_xlsx, SheetKey(f_b_xlsx, n_Sheet1), f_c_json, k_missing_csv}

\* how many keys one call of _prepare_context is given at most
MaxKeys == 2

RECURSIVE KeyLists(_)
KeyLists(n) ==
    IF n = 0 THEN {<<>>}
    ELSE KeyLists(n - 1) \cup {Append(l, k) : l \in KeyLists(n - 1), k \in RequestedKeys}

-----------------------------------------------------------------------------
(* The text specification: one query and one list of keys, and the intent  *)
(* test or the parameter extraction applied to them once.                  *)

NoLlm == [raises |-> FALSE, content |-> <<>>]

NoResult == [raised |-> FALSE, value |-> NoValue, calls |-> 0]

NoCall == [op |-> "none", viz |-> FALSE, llm |-> NoLlm, result |-> NoResult]

Classify ==
    /\ tout = NoCall
    /\ tout' = [op |-> "classify", viz |-> viz_request(tquery),
                llm |-> NoLlm, result |-> NoResult]
    /\ UNCHANGED <<tquery, tkeys, sessionVars>>

Extract ==
    \E llm \in TextLlm :
        /\ tout = NoCall
        /\ tout' = [op |-> "extract", viz |-> FALSE, llm |-> llm,
                    result |-> parse_visualization_request(tquery, tkeys, llm)]
        /\ UNCHANGED <<tquery, tkeys, sessionVars>>

-----------------------------------------------------------------------------
(* The session: the two handlers of the page, app.py.                      *)

NoRun == AskRaised(NoError, "none", NoParams, 0)

NoPrepared == [error |-> NoError, parts |-> <<>>, text |-> <<>>]

NoLast ==
    [op |-> "none", name |-> <<>>, content |-> Unreadable, query |-> <<>>,
     error |-> NoError, returned |-> NoProcessed, run |-> NoRun, llm |-> "unused",
     file_ids |-> <<>>, prepared |-> NoPrepared]

\* tempfile.NamedTemporaryFile(suffix=os.path.splitext(name)[1]).name, app.py:27
TmpPath(name) == <<"t", "m", "p">> \o Splitext(name)

\* how the llm.invoke of the branch taken ended
LlmOutcome(run, viz_llm, text_llm) ==
    IF run.branch = "visualization"
    THEN (IF TryBlock(viz_llm).exc = "LLMError" THEN "raised"
          ELSE IF TryBlock(viz_llm).exc = "JSONDecodeError" THEN "malformed"
          ELSE "json")
    ELSE IF run.branch = "analysis"
    THEN (IF run.calls = 0 THEN "unused"
          ELSE IF text_llm.raises THEN "raised" ELSE "returned")
    ELSE "unused"

\* app.py:25-41
Upload ==
    \E uploaded_file \in UploadedFiles :
        LET file_id == uploaded_file.name
            done    == agent_process_file(context, data_frames, TmpPath(file_id),
                                          file_id, uploaded_file.content)
        IN  /\ context' = done.context
            /\ data_frames' = done.data_frames
            /\ files' = IF done.error = NoError
                        THEN DictSet(files, file_id, done.data)
                        ELSE files
            /\ last' = [NoLast EXCEPT !.op = "upload", !.name = file_id,
                                      !.content = uploaded_file.content,
                                      !.error = done.error, !.returned = done.data]
            /\ UNCHANGED <<conversation_history, conversation, textVars>>

\* app.py:55-74.  The run reads what llm.invoke does in the branch it takes,
\* and plot_ok when it renders; what it does not read is held fixed.
HandleQuery ==
    \E query \in SessionQueries :
    LET viz == files # <<>> /\ viz_request(query)
        txt == files # <<>> /\ ~viz_request(query)
    IN
    \E viz_llm  \in (IF viz THEN SessionVizLlm ELSE {LlmRaises}),
       text_llm \in (IF txt THEN SessionTextLlm ELSE {LlmRaises}),
       plot_ok  \in (IF viz THEN BOOLEAN ELSE {TRUE}) :
        LET run == ask(files, context, data_frames, query, viz_llm, text_llm, plot_ok)
        IN  /\ query # <<>>
            /\ Len(conversation_history) + 2 <= MaxTurns
            /\ conversation_history' = append_turns(conversation_history, query, run)
            /\ conversation' = IF run.error = NoError
                               THEN Append(conversation,
                                           [query |-> query, response |-> run.response])
                               ELSE conversation
            /\ last' = [NoLast EXCEPT !.op = "query", !.query = query,
                                      !.error = run.error, !.run = run,
                                      !.llm = LlmOutcome(run, viz_llm, text_llm)]
            /\ UNCHANGED <<files, context, data_frames, textVars>>

-----------------------------------------------------------------------------
(* The agent called directly: the methods of DataAnalysisAgent and of its  *)
(* engine, with no page around them.                                       *)

\* DataAnalysisAgent.process_file, agent.py:19-30
ProcessFile ==
    \E call \in ProcessFileCalls :
        LET done == agent_process_file(context, data_frames, call.path,
                                       call.file_id, call.content)
        IN  /\ context' = done.context
            /\ data_frames' = done.data_frames
            /\ last' = [NoLast EXCEPT !.op = "process_file",
                                      !.name = IF Truthy(call.file_id)
                                               THEN call.file_id
                                               ELSE Basename(call.path),
                                      !.content = call.content,
                                      !.error = done.error, !.returned = done.data]
            /\ UNCHANGED <<files, conversation_history, conversation, textVars>>

\* DataAnalysisAgent.ask, agent.py:32-100
Ask ==
    \E query \in SessionQueries :
    LET viz == files # <<>> /\ viz_request(query)
        txt == files # <<>> /\ ~viz_request(query)
    IN
    \E viz_llm  \in (IF viz THEN SessionVizLlm ELSE {LlmRaises}),
       text_llm \in (IF txt THEN SessionTextLlm ELSE {LlmRaises}),
       plot_ok  \in (IF viz THEN BOOLEAN ELSE {TRUE}) :
        LET run == ask(files, context, data_frames, query, viz_llm, text_llm, plot_ok)
        IN  /\ Len(conversation_history) + 2 <= MaxTurns
            /\ conversation_history' = append_turns(conversation_history, query, run)
            /\ last' = [NoLast EXCEPT !.op = "ask", !.query = query,
                                      !.error = run.error, !.run = run,
                                      !.llm = LlmOutcome(run, viz_llm, text_llm)]
            /\ UNCHANGED <<files, context, data_frames, conversation, textVars>>

\* DataAnalysisEngine._prepare_context, data_analysis.py:59-91
PrepareContext ==
    \E file_ids \in KeyLists(MaxKeys) :
        LET prepared == prepare_context(context, file_ids)
        IN  /\ last' = [NoLast EXCEPT !.op = "prepare_context",
                                      !.file_ids = file_ids,
                                      !.error = prepared.error,
                                      !.prepared = prepared]
            /\ UNCHANGED <<files, context, data_frames, conversation_history,
                           conversation, textVars>>

Init ==
    /\ files = <<>>
    /\ context = <<>>
    /\ data_frames = <<>>
    /\ conversation_history = <<>>
    /\ conversation = <<>>
    /\ last = NoLast
    /\ tquery = <<>>
    /\ tkeys = <<>>
    /\ tout = NoCall

Next == Upload \/ HandleQuery

Spec == Init /\ [][Next]_vars

InitText ==
    /\ files = <<>>
    /\ context = <<>>
    /\ data_frames = <<>>
    /\ conversation_history = <<>>
    /\ conversation = <<>>
    /\ last = NoLast
    /\ tquery \in TextQueries
    /\ tkeys \in TextKeyLists
    /\ tout = NoCall

NextText == Classify \/ Extract

SpecText == InitText /\ [][NextText]_vars

NextAgent == ProcessFile \/ Ask \/ PrepareContext

SpecAgent == Init /\ [][NextAgent]_vars

-----------------------------------------------------------------------------
(* Properties of the session, checked under Spec.                          *)

\* the step just taken ran the query handler / the upload handler
QueryStep == last'.op = "query" /\ conversation_history' # conversation_history

UploadStep == last'.op = "upload"

LastTurn == conversation_history[Len(conversation_history)]

\* the dataset key the visualization branch resolved, agent.py:55
ExtractedFileId ==
    IF "file_id" \in DOMAIN last.run.params.fields
    THEN last.run.params.fields.file_id
    ELSE files[1].k

\* C1: ask() called with any query while agent.files is empty (and with it
\* engine.context and engine.data_frames) raises the NoData error, "No files
\* have been processed yet", returns no response, and leaves agent.files,
\* engine.context and engine.data_frames as they were.
C1_NoDataGuard ==
    [][(QueryStep /\ files = <<>>) =>
          /\ last'.error = Raised("ValueError", <<"No files have been processed yet">>)
          /\ last'.run.response = NoResponse
          /\ files' = <<>> /\ context' = context /\ data_frames' = data_frames]_vars

C1_Witness ==
    /\ last.op = "query"
    /\ last.error.exc = "ValueError"
    /\ files = <<>> /\ context = <<>> /\ data_frames = <<>>
    /\ LastTurn = UserTurn(last.query)

\* the case of C2: a visualization query whose parameters are a dict and whose
\* file_id (the default key when the dict has none) is no key of
\* engine.data_frames
C2_UnknownDataset ==
    /\ last.op = "query"
    /\ last.run.branch = "visualization"
    /\ last.run.params.kind = "object"
    /\ ~DictHas(data_frames, ExtractedFileId)

C6_UnknownType ==
    /\ last.op = "query"
    /\ last.llm = "json"
    /\ last.run.params.kind = "object"
    /\ "type" \in DOMAIN last.run.params.fields
    /\ last.run.params.fields.type \notin
          {<<"bar">>, <<"line">>, <<"scatter">>, <<"histogram">>, <<"boxplot">>,
           <<"heatmap">>, <<"pie">>}

\* what generate_visualization raises for chart type t, visualization.py:119
C6_UnsupportedChartType(t) ==
    [exc |-> "ValueError", msg |-> <<"Unsupported visualization type: ">> \o t]

\* C6 as stated: every such query fails with UnsupportedChartType and no
\* assistant turn is appended.
C6_Original ==
    C6_UnknownType =>
        /\ last.error = C6_UnsupportedChartType(last.run.params.fields.type)
        /\ LastTurn = UserTurn(last.query)

\* C6, amended: when moreover the file_id of the parameters (the default key
\* when the object has none) is a key of engine.data_frames, the chart type
\* reaches the renderer as the model gave it, ask() fails with the renderer's
\* "Unsupported visualization type: <type>" error, unchanged, returns no
\* response, and the user turn stays the last turn of the history.
C6_UnsupportedTypePropagates ==
    (C6_UnknownType /\ DictHas(data_frames, ExtractedFileId)) =>
        /\ last.error = C6_UnsupportedChartType(last.run.params.fields.type)
        /\ last.run.response = NoResponse
        /\ LastTurn = UserTurn(last.query)

C6_Witness ==
    /\ C6_UnknownType
    /\ DictHas(data_frames, ExtractedFileId)
    /\ last.run.params.fields.type = <<"donut">>
    /\ last.error.exc = "ValueError"

\* C7: an upload of a workbook with N sheets under file_id writes exactly N
\* entries of engine.data_frames, one per sheet, keyed "<file_id>_<sheet>" and
\* holding that sheet's DataFrame; it adds, removes and changes no other
\* entry; and it returns exactly the N sheet names, in the workbook's order.
\* This holds whatever was uploaded before, the same file_id included.
C7_SheetsRegistered ==
    [][(UploadStep /\ last'.error = NoError /\ last'.content.workbook # <<>>) =>
          LET book  == last'.content.workbook
              N     == Len(book)
              key(i) == last'.name \o <<"_">> \o book[i].name
              keys  == {key(i) : i \in 1..N}
          IN  /\ Cardinality(keys) = N
              /\ last'.returned.sheet_names = [i \in 1..N |-> book[i].name]
              /\ Len(last'.returned.sheet_names) = N
              /\ \A i \in 1..N :
                    /\ DictHas(data_frames', key(i))
                    /\ DictGet(data_frames', key(i)) = book[i].df
              /\ \A j \in 1..Len(data_frames') :
                    data_frames'[j].k \notin keys =>
                        \E m \in 1..Len(data_frames) : data_frames[m] = data_frames'[j]
              /\ \A m \in 1..Len(data_frames) :
                    data_frames[m].k \notin keys =>
                        \E j \in 1..Len(data_frames') : data_frames'[j] = data_frames[m]]_vars

\* a workbook uploaded again under the same file_id, now with one sheet: the
\* entry of the sheet it no longer has is still there
C7_Witness ==
    /\ last.op = "upload"
    /\ last.error = NoError
    /\ last.name = f_b_xlsx
    /\ last.returned.sheet_names = <<n_Sheet1>>
    /\ DictHas(data_frames, f_b_xlsx \o <<"_">> \o n_Sheet1)
    /\ DictHas(data_frames, f_b_xlsx \o <<"_">> \o n_Sheet2)

\* C8: a query that fails (NoData, a model failure on an analysis query, a
\* render error, or any other exception of ask()) leaves agent.files,
\* engine.context and engine.data_frames unchanged and every earlier turn of
\* the conversation history at its position; the page catches the exception,
\* and later queries are answered.
C8_FailureKeepsSession ==
    [][(QueryStep /\ last'.error # NoError) =>
          /\ files' = files /\ context' = context /\ data_frames' = data_frames
          /\ Len(conversation_history') >= Len(conversation_history)
          /\ SubSeq(conversation_history', 1, Len(conversation_history))
                = conversation_history
          /\ conversation' = conversation]_vars

\* a query answered after a query that failed: two user turns in a row, then
\* the assistant turn
C8_Witness ==
    /\ last.op = "query"
    /\ last.error = NoError
    /\ Len(conversation_history) = 3
    /\ conversation_history[1].role = "user"
    /\ conversation_history[2].role = "user"
    /\ conversation_history[3].role = "assistant"
    /\ files # <<>>

\* C9: a failure of llm.invoke is recovered in parameter extraction only.  On
\* an analysis query ask() fails with that exception, returns no response and
\* appends no assistant turn.  On a visualization query the extraction returns
\* the fallback parameters (chart type histogram or bar by the query, no
\* columns, the first key of agent.files) and ask() goes on with them: it
\* does not fail with the model's exception, and an answer it gives is the
\* chart of that type or the not-found text for that key.
C9_ModelFailure ==
    (last.op = "query" /\ last.llm = "raised") =>
        /\ last.run.branch = "analysis" =>
              /\ last.error.exc = "LLMError"
              /\ last.run.response = NoResponse
              /\ ~last.run.answered
              /\ LastTurn = UserTurn(last.query)
        /\ last.run.branch = "visualization" =>
              /\ last.error.exc # "LLMError"
              /\ last.run.params.kind = "object"
              /\ last.run.params.fields.type
                    = (IF last.query = <<"h", "i", "s", "t", "o", "g", "r", "a", "m">>
                       THEN <<"histogram">> ELSE <<"bar">>)
              /\ last.run.params.fields.x_column = None
              /\ last.run.params.fields.y_column = None
              /\ last.run.params.fields.category_column = None
              /\ last.run.params.fields.file_id = files[1].k
              /\ last.run.answered =>
                    last.run.response.message \in
                        {<<"Here is the ">> \o last.run.params.fields.type
                            \o <<" visualization you requested">>,
                         <<"File ">> \o files[1].k
                            \o <<" not found or no data available for visualization">>}

C9_Witness ==
    /\ last.op = "query"
    /\ last.llm = "raised"
    /\ last.run.branch = "analysis"
    /\ last.error.exc = "LLMError"
    /\ LastTurn = UserTurn(last.query)

C9_WitnessVisualization ==
    /\ last.op = "query"
    /\ last.llm = "raised"
    /\ last.run.branch = "visualization"
    /\ last.run.answered

C10_NumberLabel ==
    LET data == context[CHOOSE i \in 1..Len(context) : context[i].k = files[1].k].v
        numbered(metadata) ==
            \E i \in 1..Len(metadata.dtypes) : ~metadata.dtypes[i].str
    IN  IF "data" \in DOMAIN data THEN numbered(data.metadata)
        ELSE \E n \in 1..Len(data.sheets) : numbered(data.sheets[n].v.metadata)

C10_WitnessNoCall ==
    /\ last.op = "query"
    /\ last.run.branch = "analysis"
    /\ last.run.calls = 0
    /\ last.error.exc = "TypeError"

\* the parameters of the last query are the heuristic fallback's
FallbackTaken ==
    /\ last.op = "query"
    /\ last.run.branch = "visualization"
    /\ last.llm \in {"raised", "malformed"}

\* C11: whenever engine.data_frames is non-empty, the default dataset key of
\* ask() is the first key of engine.data_frames and is a key of it, and so is
\* the file_id the heuristic fallback sets; a workbook as the only upload
\* included.
C11_DefaultKeyResolves ==
    data_frames # <<>> =>
        LET file_id == IF files = <<>> THEN <<"None">> ELSE files[1].k
        IN  /\ file_id = data_frames[1].k
            /\ \E i \in 1..Len(data_frames) : data_frames[i].k = file_id
            /\ FallbackTaken =>
                  \E i \in 1..Len(data_frames) :
                      data_frames[i].k = last.run.params.fields.file_id

\* a workbook is the only upload, and a visualization query that fell back to
\* the default key was answered "File b.xlsx not found ..."
C11_Witness ==
    /\ Len(files) = 1
    /\ files[1].k = f_b_xlsx
    /\ \A i \in 1..Len(data_frames) : data_frames[i].k # f_b_xlsx
    /\ FallbackTaken
    /\ last.run.params.fields.file_id = f_b_xlsx
    /\ last.run.response.message =
          <<"File ">> \o f_b_xlsx
             \o <<" not found or no data available for visualization">>

\* C13: conversation_history only grows, at its end.  A query handler run in
\* which ask() returns a response appends exactly two turns: the user turn
\* with the query, then an assistant turn whose content is the message of the
\* response handed to the page.  A run in which ask() raises appends the user
\* turn alone.  No other step touches the history.
C13_HistoryAppendOnly ==
    [][LET n  == Len(conversation_history)
           n2 == Len(conversation_history')
       IN  /\ n2 >= n
           /\ SubSeq(conversation_history', 1, n) = conversation_history
           /\ n2 > n => last'.op = "query"
           /\ (QueryStep /\ last'.error = NoError) =>
                 /\ n2 = n + 2
                 /\ conversation_history'[n + 1]
                       = [role |-> "user", content |-> last'.query]
                 /\ Len(conversation') = Len(conversation) + 1
                 /\ conversation_history'[n + 2]
                       = [role    |-> "assistant",
                          content |-> conversation'[Len(conversation')].response.message]
           /\ (QueryStep /\ last'.error # NoError) =>
                 /\ n2 = n + 1
                 /\ conversation_history'[n + 1]
                       = [role |-> "user", content |-> last'.query]
                 /\ conversation' = conversation]_vars

\* a chart was returned: the history is the query, then the chart's message
C13_Witness ==
    /\ last.op = "query"
    /\ last.error = NoError
    /\ last.run.response.type = "visualization"
    /\ Len(conversation_history) = 2
    /\ conversation_history[1] = [role |-> "user", content |-> last.query]
    /\ conversation_history[2].role = "assistant"
    /\ conversation_history[2].content = conversation[1].response.message

\* the case of C15: the model answered a JSON object without "type", the
\* dataset of its file_id (the default key when it has none) is registered,
\* and the renderer raised nothing
C15_TypeOmitted ==
    /\ last.op = "query"
    /\ last.llm = "json"
    /\ last.run.params.kind = "object"
    /\ "type" \notin DOMAIN last.run.params.fields
    /\ DictHas(data_frames, ExtractedFileId)
    /\ last.error.exc # "PlotError"

\* C15: in that case ask() returns a visualization response, drawn as a bar
\* chart, and the assistant turn is appended; it does not fail after the
\* chart is drawn.
C15_MissingTypeRenders ==
    C15_TypeOmitted =>
        /\ last.error = NoError
        /\ last.run.response.type = "visualization"
        /\ last.run.response.data.type = <<"bar">>
        /\ LastTurn.role = "assistant"

\* the bar chart was drawn and ask() then raised KeyError('type')
C15_Witness ==
    /\ C15_TypeOmitted
    /\ last.error = [exc |-> "KeyError", msg |-> <<"type">>]
    /\ last.run.response = NoResponse
    /\ LastTurn = UserTurn(last.query)

-----------------------------------------------------------------------------
(* Properties of the intent test and of the parameter extraction, checked  *)
(* under SpecText.                                                         *)

\* word occurs in text at 0-based index i, letter case ignored
OccursAt(text, word, i) ==
    /\ i + Len(word) <= Len(text)
    /\ \A j \in 1..Len(word) : LowerChar(text[i + j]) = word[j]

Occurs(text, word) == \E i \in 0..Len(text) : OccursAt(text, word, i)

FirstOccurrence(text, word) ==
    CHOOSE i \in 0..Len(text) :
        /\ OccursAt(text, word, i)
        /\ \A h \in 0..(i - 1) : ~OccursAt(text, word, h)

\* text from 0-based index i up to the next period, or to its end
UpToPeriod(text, i) ==
    LET stops == {e \in (i + 1)..Len(text) : text[e] = "."}
        stop  == IF stops = {} THEN Len(text) + 1 ELSE SetMin(stops)
    IN  [n \in 1..(IF stop - 1 - i > 0 THEN stop - 1 - i ELSE 0) |-> text[i + n]]

RECURSIVE Trimmed(_, _)
\* text without the characters of chars at its two ends
Trimmed(text, chars) ==
    IF text = <<>> THEN <<>>
    ELSE IF Head(text) \in chars THEN Trimmed(Tail(text), chars)
    ELSE IF text[Len(text)] \in chars
         THEN Trimmed(SubSeq(text, 1, Len(text) - 1), chars)
    ELSE text

\* the extraction took the fallback: llm.invoke raised, or what it returned
\* is not one JSON value once the fences are stripped
TookFallback ==
    /\ tout.op = "extract"
    /\ \/ tout.llm.raises
       \/ ~JsonLoadsOk(FenceStrip(tout.llm.content))

Extracted == tout.result.value.fields

\* C3: when llm.invoke raises or its output is not valid JSON after the
\* fences are stripped, _parse_visualization_request raises nothing and
\* returns the fallback parameters: chart type histogram if "histogram" occurs
\* in the query (in any letter case) and bar otherwise; y and category column
\* unset; x column unset unless the query has "x-axis"; title unset unless it
\* has "title"; dataset key the first key of agent.files.
C3_FallbackParameters ==
    TookFallback =>
        /\ ~tout.result.raised
        /\ tout.result.value.kind = "object"
        /\ DOMAIN Extracted = {"type", "x_column", "y_column", "category_column",
                               "title", "file_id"}
        /\ Extracted.type = (IF Occurs(tquery, <<"h", "i", "s", "t", "o", "g", "r", "a", "m">>)
                             THEN <<"histogram">> ELSE <<"bar">>)
        /\ Extracted.y_column = None
        /\ Extracted.category_column = None
        /\ ~Occurs(tquery, <<"x", "-", "a", "x", "i", "s">>) => Extracted.x_column = None
        /\ ~Occurs(tquery, <<"t", "i", "t", "l", "e">>) => Extracted.title = None
        /\ Extracted.file_id = tkeys[1]

\* section 8: the model call raises, extract("Create a histogram of Age",
\* ["loans.csv"])
C3_Witness ==
    /\ tout.op = "extract"
    /\ tout.llm.raises
    /\ tquery = q_histogram_example
    /\ tkeys = <<f_loans_csv>>
    /\ Extracted.type = <<"histogram">>
    /\ Extracted.file_id = f_loans_csv

C3_WitnessMalformed ==
    /\ TookFallback
    /\ ~tout.llm.raises
    /\ tout.llm.content # <<>>
    /\ tquery = q_upper_histogram
    /\ Extracted.type = <<"histogram">>

\* C4 as stated, the x column compared up to white space at its ends: for a
\* query containing "x-axis" the x column is the text immediately following
\* "x-axis" up to the next period or the end; for a query containing "title"
\* the title is the text immediately following "title" up to the next period,
\* trimmed of quotes and spaces.
C4_Original ==
    TookFallback =>
        /\ Contains(tquery, s_x_axis) =>
              Extracted.x_column
                 = Trimmed(UpToPeriod(tquery, Find(tquery, s_x_axis, 0) + Len(s_x_axis)),
                           {" ", "\n", "\t"})
        /\ Contains(tquery, s_title) =>
              Extracted.title
                 = Trimmed(UpToPeriod(tquery, Find(tquery, s_title, 0) + Len(s_title)),
                           {" ", "\"", "'"})

\* C4, amended: in the fallback, for a query in which "x-axis" occurs (in any
\* letter case) the x column is the text that starts one character after the
\* first occurrence, the character that immediately follows "x-axis" being
\* skipped, and ends before the next period or at the end of the query,
\* trimmed of white space at its ends; for a query in which "title" occurs (in
\* any letter case) the title is the text immediately following the first
\* occurrence up to the next period or the end of the query, trimmed of quote
\* and space characters at its ends.  "Plot with x-axis CreditScore. title
\* Loan Overview." yields x column "CreditScore" and title "Loan Overview".
C4_FallbackSubstrings ==
    TookFallback =>
        /\ Occurs(tquery, <<"x", "-", "a", "x", "i", "s">>) =>
              Extracted.x_column
                 = Trimmed(UpToPeriod(tquery,
                              FirstOccurrence(tquery, <<"x", "-", "a", "x", "i", "s">>) + 6 + 1),
                           {" ", "\n", "\t"})
        /\ Occurs(tquery, <<"t", "i", "t", "l", "e">>) =>
              Extracted.title
                 = Trimmed(UpToPeriod(tquery,
                              FirstOccurrence(tquery, <<"t", "i", "t", "l", "e">>) + 5),
                           {" ", "\"", "'"})
        /\ tquery = q_plot_example =>
              /\ Extracted.x_column
                    = <<"C", "r", "e", "d", "i", "t", "S", "c", "o", "r", "e">>
              /\ Extracted.title
                    = <<"L", "o", "a", "n", " ", "O", "v", "e", "r", "v", "i", "e", "w">>

C4_Witness ==
    /\ TookFallback
    /\ tquery = q_plot_example
    /\ Extracted.x_column = <<"C", "r", "e", "d", "i", "t", "S", "c", "o", "r", "e">>
    /\ Extracted.title = <<"L", "o", "a", "n", " ", "O", "v", "e", "r", "v", "i", "e", "w">>

\* the keywords of section 4.3
C5_Keywords ==
    { <<"p", "l", "o", "t">>, <<"c", "h", "a", "r", "t">>,
      <<"g", "r", "a", "p", "h">>,
      <<"v", "i", "s", "u", "a", "l", "i", "z", "e">>,
      <<"v", "i", "s", "u", "a", "l", "i", "z", "a", "t", "i", "o", "n">>,
      <<"h", "i", "s", "t", "o", "g", "r", "a", "m">>,
      <<"l", "i", "n", "e">>, <<"b", "a", "r">>, <<"p", "i", "e">>,
      <<"s", "c", "a", "t", "t", "e", "r">>,
      <<"b", "o", "x", "p", "l", "o", "t">> }

\* C5: the intent test of ask() takes the visualization branch exactly when
\* one of plot, chart, graph, visualize, visualization, histogram, line, bar,
\* pie, scatter, boxplot occurs in the query, letter case ignored, and the
\* analysis branch otherwise; the empty query is an analysis query.
C5_IntentTest ==
    tout.op = "classify" =>
        /\ tout.viz <=> \E word \in C5_Keywords : Occurs(tquery, word)
        /\ tquery = <<>> => ~tout.viz

\* "the bottom line" is a visualization query
C5_Witness ==
    /\ tout.op = "classify"
    /\ tquery = q_bottom_line
    /\ tout.viz

C5_WitnessUpperCase ==
    /\ tout.op = "classify"
    /\ tquery = <<"B", "o", "x", "P", "l", "o", "t">>
    /\ tout.viz

C5_WitnessEmpty ==
    /\ tout.op = "classify"
    /\ tquery = <<>>
    /\ ~tout.viz

-----------------------------------------------------------------------------
(* Properties of the agent called directly, checked under SpecAgent.       *)

\* the requested keys that are keys of engine.data_frames, in request order
C12_Registered ==
    SelectSeq(last.file_ids,
              LAMBDA k : \E i \in 1..Len(data_frames) : data_frames[i].k = k)

\* C12: _prepare_context raises nothing and its text consists, in request
\* order, of exactly one block ending with the delimiter line for each
\* requested key that is a key of engine.data_frames, "<file_id>_<sheet>"
\* keys included, and of nothing for the other requested keys.
C12_BlockPerKey ==
    last.op = "prepare_context" =>
        LET parts  == last.prepared.parts
            blocks == {i \in 1..Len(parts) :
                          parts[i] = <<"----------------------------------------">>}
        IN  /\ last.error = NoError
            /\ Cardinality(blocks) = Len(C12_Registered)
            /\ parts # <<>> => Len(parts) \in blocks
            /\ \A j \in 1..Len(C12_Registered) :
                  \E i \in 1..Len(parts) :
                      /\ Cardinality({b \in blocks : b < i}) = j - 1
                      /\ parts[i] = <<"File: ">> \o C12_Registered[j]

\* the key of a registered sheet is requested and the text is empty
C12_Witness ==
    /\ last.op = "prepare_context"
    /\ last.file_ids = <<f_b_xlsx \o <<"_">> \o n_Sheet1>>
    /\ Len(C12_Registered) = 1
    /\ last.error = NoError
    /\ last.prepared.text = <<>>

\* the key of a registered table with numbers for labels is requested and the
\* call raises
C12_WitnessRaises ==
    /\ last.op = "prepare_context"
    /\ last.file_ids = <<f_c_json>>
    /\ Len(C12_Registered) = 1
    /\ last.error.exc = "TypeError"

\* the name of a workbook of two sheets, no key of engine.data_frames, is
\* requested and the text has two blocks
C12_WitnessWorkbook ==
    /\ last.op = "prepare_context"
    /\ last.file_ids = <<f_b_xlsx>>
    /\ C12_Registered = <<>>
    /\ Len(last.prepared.parts) = 12
    /\ last.prepared.parts[1] = <<"Sheet: ">> \o n_Sheet1
    /\ last.prepared.parts[7] = <<"Sheet: ">> \o n_Sheet2

\* C14: every file_id under which process_file has succeeded is a key of
\* agent.files, and ask() raises the NoData error only if no process_file
\* call has succeeded.
C14_StoresAgree ==
    /\ \A i \in 1..Len(context) :
          \E j \in 1..Len(files) : files[j].k = context[i].k
    /\ (last.op = "process_file" /\ last.error = NoError) =>
          \E j \in 1..Len(files) : files[j].k = last.name
    /\ (last.op = "ask"
        /\ last.error = [exc |-> "ValueError",
                         msg |-> <<"No files have been processed yet">>]) =>
          context = <<>> /\ data_frames = <<>>

\* process_file has succeeded and ask() raised the NoData error
C14_Witness ==
    /\ last.op = "ask"
    /\ last.error.exc = "ValueError"
    /\ last.run.branch = "none"
    /\ files = <<>>
    /\ context # <<>>
    /\ data_frames # <<>>

====
